---- MODULE Spec2Model ----
(***************************************************************************)
(* Registries of redis_tasks (src/rq/registries.py): the expiring task     *)
(* registries, the worker liveness registry and the queue registry, over   *)
(* a Redis store whose commands are atomic one by one.  A Python method    *)
(* that issues several commands is one step per command; a method that     *)
(* issues one command (or one pipeline, or one Lua script) is one step.    *)
(*                                                                         *)
(* Ids are numbers: Redis orders members of equal score by their bytes,    *)
(* and the numeric order of the ids stands for that order.                 *)
(***************************************************************************)
EXTENDS Integers, Sequences, FiniteSets, TLC

\* ------------------------------------------------------------- bounds
MaxWorkers == 2
MaxTasks == 2
MaxQueues == 1
MaxTime == 2

WorkerIds == 1..MaxWorkers
TaskIds == 1..MaxTasks
QueueNames == 1..MaxQueues
RegistryNames == {"finished", "failed"}

\* conf.settings is external configuration.  The configurations the
\* model explores: a TTL of 0 and a positive TTL, two heartbeat timeouts.
SettingsChoices ==
    {[EXPIRING_REGISTRIES_TTL |-> 0, WORKER_HEARTBEAT_TIMEOUT |-> 1],
     [EXPIRING_REGISTRIES_TTL |-> 1, WORKER_HEARTBEAT_TIMEOUT |-> 2]}

VARIABLES
    now,          \* the store clock read by connection.ftime()
    settings,     \* EXPIRING_REGISTRIES_TTL, WORKER_HEARTBEAT_TIMEOUT
    tasks_key,    \* registry name -> sorted set  RedisKey(name + '_tasks')
    workers_key,  \* sorted set RedisKey('workers'): worker id -> score
    queues_key,   \* set RedisKey('queues'): the registered queue names
    worker_task,  \* worker id -> list at RedisKey('worker_task:') .. id
    queue,        \* queue name -> list of pending task ids
    status,       \* task id -> status of the task record
    maint,        \* the process running registry_maintenance()
    ret,          \* what the last operation returned or raised
    last_beat,    \* history: worker id -> time of its latest add/heartbeat
    evicted,      \* history: task ids removed by expire()'s range remove
    pipe,         \* the pipeline a caller passes to the registry methods
    cli           \* the process started by the `worker` command

vars == <<now, settings, tasks_key, workers_key, queues_key, worker_task,
          queue, status, maint, ret, last_beat, evicted, pipe, cli>>

\* ------------------------------------------------- the store's commands
\* A sorted set is a function from its members to their scores.
EmptyZSet == [m \in {} |-> 0]

ZHas(z, m) == m \in DOMAIN z

\* ZADD key [XX] [CH] score member: the reply counts the members added,
\* and with CH also the members whose score changed.  XX never adds.
ZADD(z, m, s, xx, ch) ==
    LET exists == ZHas(z, m)
        added == IF ~exists /\ ~xx THEN 1 ELSE 0
        updated == IF exists /\ z[m] # s THEN 1 ELSE 0
    IN [zset |-> IF xx /\ ~exists
                 THEN z
                 ELSE [x \in DOMAIN z \cup {m} |-> IF x = m THEN s ELSE z[x]],
        reply |-> IF ch THEN added + updated ELSE added]

ZREM(z, m) == [x \in DOMAIN z \ {m} |-> z[x]]

\* Members in the order of a sorted set: by score, ties by member.
ZLess(z, a, b) == z[a] < z[b] \/ (z[a] = z[b] /\ a < b)

RECURSIVE ZOrdered(_, _)
ZOrdered(z, S) ==
    IF S = {} THEN <<>>
    ELSE LET m == CHOOSE a \in S : \A b \in S \ {a} : ZLess(z, a, b)
         IN <<m>> \o ZOrdered(z, S \ {m})

\* ZRANGE key 0 -1
ZRANGE(z) == ZOrdered(z, DOMAIN z)

\* ZRANGEBYSCORE key min max (both bounds inclusive)
ZRANGEBYSCORE(z, min, max) ==
    ZOrdered(z, {m \in DOMAIN z : min <= z[m] /\ z[m] <= max})

\* ZRANGEBYSCORE key -inf max
ZRANGEBYSCORE_neginf(z, max) == ZOrdered(z, {m \in DOMAIN z : z[m] <= max})

\* ZREMRANGEBYSCORE key min max
ZREMRANGEBYSCORE(z, min, max) ==
    [x \in {m \in DOMAIN z : ~(min <= z[m] /\ z[m] <= max)} |-> z[x]]

\* LINDEX key index: the element, or nothing (Lua false) past the end.
\* The reply is a list of at most one element.
LINDEX(list, index) ==
    IF index + 1 <= Len(list) THEN <<list[index + 1]>> ELSE <<>>

Range(s) == {s[i] : i \in DOMAIN s}

Ret(op, key, arg, err, ids) ==
    [op |-> op, key |-> key, arg |-> arg, err |-> err, ids |-> ids]

\* An operation whose return value no property reads returns None.
None == Ret("", "", 0, "", <<>>)

\* No pipeline is open; the `worker` command has not been given.
NoPipe == [open |-> FALSE, cmds |-> <<>>]
CliShell == [pc |-> "shell", burst |-> FALSE, cleanups |-> 0,
             working |-> FALSE, error |-> "", exit_code |-> 0]

MaintIdle == [pc |-> "idle", reg |-> "", cutoff_time |-> 0,
              expired_task_ids |-> <<>>]

\* --------------------------------------------------------------- Init
Init ==
    /\ now = 0
    /\ settings \in SettingsChoices
    /\ tasks_key = [r \in RegistryNames |-> EmptyZSet]
    /\ workers_key = EmptyZSet
    /\ queues_key = {}
    /\ worker_task = [w \in WorkerIds |-> <<>>]
    /\ queue = [q \in QueueNames |-> <<>>]
    /\ status = [t \in TaskIds |-> "none"]
    /\ maint = MaintIdle
    /\ ret = None
    /\ last_beat = EmptyZSet
    /\ evicted = {}
    /\ pipe = NoPipe
    /\ cli = CliShell

\* The store clock moves on.
Tick ==
    /\ now < MaxTime
    /\ now' = now + 1
    /\ ret' = None
    /\ UNCHANGED <<pipe, cli, settings, tasks_key, workers_key, queues_key, worker_task,
                   queue, status, maint, last_beat, evicted>>

\* ---------------------------------------------------- WorkerRegistry
\* WorkerRegistry.add: one ZADD in a pipeline of its own.
WorkerRegistry_add(worker) ==
    LET timestamp == now
    IN /\ workers_key' = ZADD(workers_key, worker, timestamp, FALSE, FALSE).zset
       /\ last_beat' = ZADD(last_beat, worker, timestamp, FALSE, FALSE).zset
       /\ ret' = Ret("add", "workers", worker, "", <<>>)
       /\ UNCHANGED <<pipe, cli, now, settings, tasks_key, queues_key, worker_task,
                      queue, status, maint, evicted>>

\* WorkerRegistry.heartbeat with the write made without xx=True: the
\* member is added when it is absent.
WorkerRegistry_heartbeat_upsert(worker) ==
    LET timestamp == now
        r == ZADD(workers_key, worker, timestamp, FALSE, TRUE)
        updated == r.reply
    IN /\ workers_key' = r.zset
       /\ last_beat' = [x \in DOMAIN r.zset |->
                          IF x = worker THEN timestamp ELSE last_beat[x]]
       /\ ret' = Ret("heartbeat", "workers", worker,
                     IF updated = 0 THEN "NoSuchWorkerError" ELSE "", <<>>)
       /\ UNCHANGED <<pipe, cli, now, settings, tasks_key, queues_key, worker_task,
                      queue, status, maint, evicted>>

\* WorkerRegistry.heartbeat: ZADD XX CH, and NoSuchWorkerError when the
\* reply (the number of members changed) is 0.
WorkerRegistry_heartbeat(worker) ==
    LET timestamp == now
        r == ZADD(workers_key, worker, timestamp, TRUE, TRUE)
        updated == r.reply
    IN /\ workers_key' = r.zset
       /\ last_beat' = [x \in DOMAIN r.zset |->
                          IF x = worker THEN timestamp ELSE last_beat[x]]
       /\ ret' = Ret("heartbeat", "workers", worker,
                     IF updated = 0 THEN "NoSuchWorkerError" ELSE "", <<>>)
       /\ UNCHANGED <<pipe, cli, now, settings, tasks_key, queues_key, worker_task,
                      queue, status, maint, evicted>>

\* WorkerRegistry.remove: one ZREM in a pipeline of its own.
WorkerRegistry_remove(worker) ==
    /\ workers_key' = ZREM(workers_key, worker)
    /\ last_beat' = ZREM(last_beat, worker)
    /\ ret' = None
    /\ UNCHANGED <<pipe, cli, now, settings, tasks_key, queues_key, worker_task,
                   queue, status, maint, evicted>>

\* WorkerRegistry.get_worker_ids: ZRANGEBYSCORE key -inf +inf.
get_worker_ids == ZRANGE(workers_key)

\* get_dead_ids with the heartbeat timeout left out of the bound.
get_dead_ids_no_timeout ==
    LET oldest_valid == now
    IN ZRANGEBYSCORE_neginf(workers_key, oldest_valid)

\* WorkerRegistry.get_dead_ids: ZRANGEBYSCORE key -inf oldest_valid.
get_dead_ids ==
    LET oldest_valid == now - settings.WORKER_HEARTBEAT_TIMEOUT
    IN ZRANGEBYSCORE_neginf(workers_key, oldest_valid)

\* The Lua loop with table.insert(task_ids, 1, task_id): each id goes to
\* the front of the result.
RECURSIVE lua_for_prepend(_, _, _)
lua_for_prepend(worker_ids, i, task_ids) ==
    IF i > Len(worker_ids) THEN task_ids
    ELSE LET task_key == worker_task[worker_ids[i]]
             task_id == LINDEX(task_key, 0)
         IN lua_for_prepend(worker_ids, i + 1,
                IF task_id # <<>> THEN task_id \o task_ids ELSE task_ids)

\* The loop of the Lua script: for each worker id in turn, LINDEX of its
\* list at 0, inserted into task_ids unless the reply is false.
RECURSIVE lua_for(_, _, _)
lua_for(worker_ids, i, task_ids) ==
    IF i > Len(worker_ids) THEN task_ids
    ELSE LET task_key == worker_task[worker_ids[i]]
             task_id == LINDEX(task_key, 0)
         IN lua_for(worker_ids, i + 1,
                IF task_id # <<>> THEN task_ids \o task_id ELSE task_ids)

\* get_running_task_ids with the enumeration ZRANGE key 0 -2: the last
\* worker of the liveness set is left out.
get_running_task_ids_short ==
    LET all_ids == ZRANGE(workers_key)
        worker_ids == SubSeq(all_ids, 1, Len(all_ids) - 1)
    IN lua_for(worker_ids, 1, <<>>)

\* WorkerRegistry.get_running_task_ids: the Lua script, run by the store
\* as one command.
get_running_task_ids ==
    LET worker_ids == ZRANGE(workers_key)
    IN lua_for(worker_ids, 1, <<>>)

Call_get_dead_ids ==
    /\ ret' = Ret("get_dead_ids", "workers", 0, "", get_dead_ids)
    /\ UNCHANGED <<pipe, cli, now, settings, tasks_key, workers_key, queues_key,
                   worker_task, queue, status, maint, last_beat, evicted>>

Call_get_running_task_ids ==
    /\ ret' = Ret("get_running_task_ids", "workers", 0, "",
                  get_running_task_ids)
    /\ UNCHANGED <<pipe, cli, now, settings, tasks_key, workers_key, queues_key,
                   worker_task, queue, status, maint, last_beat, evicted>>

\* -------------------------------------------------- ExpiringRegistry
\* ExpiringRegistry.add with the write made update-only: a new id is not
\* indexed.
ExpiringRegistry_add_xx(self, task) ==
    LET timestamp == now
    IN [tasks_key EXCEPT ![self] = ZADD(@, task, timestamp, TRUE, FALSE).zset]

\* ExpiringRegistry.add with the write made insert-only (nx=True): the
\* score of an id already indexed is left as it is.
ExpiringRegistry_add_nx(self, task) ==
    LET timestamp == now
    IN IF ZHas(tasks_key[self], task) THEN tasks_key
       ELSE [tasks_key EXCEPT
               ![self] = ZADD(@, task, timestamp, FALSE, FALSE).zset]

\* ExpiringRegistry.add: the ZADD it appends to the pipeline; the value of
\* the registries once the pipeline is executed.
ExpiringRegistry_add(self, task) ==
    LET timestamp == now
    IN [tasks_key EXCEPT ![self] = ZADD(@, task, timestamp, FALSE, FALSE).zset]

\* ExpiringRegistry.get_task_ids: ZRANGE key 0 -1.
get_task_ids(self) == ZRANGE(tasks_key[self])

\* QueueRegistry.add: SADD key name.
QueueRegistry_add(name) == queues_key \cup {name}

\* ------------------------------------- task lifecycle (queue, worker)
\* Enqueue: a new task is pushed to the tail of the queue, its status is
\* queued, and the queue's name is registered.
Enqueue(task, name) ==
    /\ status[task] = "none"
    /\ queue' = [queue EXCEPT ![name] = Append(@, task)]
    /\ status' = [status EXCEPT ![task] = "queued"]
    /\ queues_key' = QueueRegistry_add(name)
    /\ ret' = None
    /\ UNCHANGED <<pipe, cli, now, settings, tasks_key, workers_key, worker_task,
                   maint, last_beat, evicted>>

\* Dequeue by a registered, idle worker: the head of the first non-empty
\* queue in the worker's order; in the same pipeline the task's status is
\* running, the worker's slot holds the task and its heartbeat is renewed.
Dequeue(worker) ==
    /\ ZHas(workers_key, worker)
    /\ worker_task[worker] = <<>>
    /\ \E name \in QueueNames :
         /\ queue[name] # <<>>
         /\ \A other \in QueueNames : other < name => queue[other] = <<>>
         /\ LET task == Head(queue[name])
            IN /\ queue' = [queue EXCEPT ![name] = Tail(@)]
               /\ status' = [status EXCEPT ![task] = "running"]
               /\ worker_task' = [worker_task EXCEPT ![worker] = <<task>>]
               /\ ret' = None
    /\ workers_key' = ZADD(workers_key, worker, now, TRUE, FALSE).zset
    /\ last_beat' = [last_beat EXCEPT ![worker] = now]
    /\ UNCHANGED <<pipe, cli, now, settings, tasks_key, queues_key, maint, evicted>>

\* Completion that adds the task to the registry and leaves the worker's
\* slot as it is.
Complete_keep_slot(worker, self) ==
    /\ worker_task[worker] # <<>>
    /\ LET task == Head(worker_task[worker])
       IN /\ status' = [status EXCEPT ![task] = self]
          /\ tasks_key' = ExpiringRegistry_add(self, task)
          /\ ret' = None
    /\ UNCHANGED <<pipe, cli, now, settings, workers_key, queues_key, worker_task,
                   queue, maint, last_beat, evicted>>

\* Completion (self = "finished" on success, "failed" on failure): in one
\* pipeline the worker's slot is cleared, the status is set and the task
\* is added to the registry.
Complete(worker, self) ==
    /\ worker_task[worker] # <<>>
    /\ LET task == Head(worker_task[worker])
       IN /\ worker_task' = [worker_task EXCEPT ![worker] = <<>>]
          /\ status' = [status EXCEPT ![task] = self]
          /\ tasks_key' = ExpiringRegistry_add(self, task)
          /\ ret' = None
    /\ UNCHANGED <<pipe, cli, now, settings, workers_key, queues_key, queue, maint,
                   last_beat, evicted>>

\* ExpiringRegistry.add in a pipeline of its own, for a task the registry
\* already indexes (the upsert of its score).
ExpiringRegistry_add_again(self, task) ==
    /\ ZHas(tasks_key[self], task)
    /\ tasks_key' = ExpiringRegistry_add(self, task)
    /\ ret' = Ret("add", self, task, "", <<>>)
    /\ UNCHANGED <<pipe, cli, now, settings, workers_key, queues_key, worker_task,
                   queue, status, maint, last_beat, evicted>>

\* ------------------------------------------------ registry_maintenance
\* What registry_maintenance() does after expire() of a registry returns.
AfterExpire(self) ==
    IF self = "finished"
    THEN [MaintIdle EXCEPT !.pc = "expire", !.reg = "failed"]
    ELSE [MaintIdle EXCEPT !.pc = "handle_dead_workers"]

\* registry_maintenance() is called; finished_task_registry.expire() is
\* next.
registry_maintenance ==
    /\ maint.pc = "idle"
    /\ maint' = [MaintIdle EXCEPT !.pc = "expire", !.reg = "finished"]
    /\ ret' = None
    /\ UNCHANGED <<pipe, cli, now, settings, tasks_key, workers_key, queues_key,
                   worker_task, queue, status, last_beat, evicted>>

\* expire() without the test of expired_task_ids: the range remove and
\* the deletion are issued whatever was read.
expire_zrangebyscore_no_if(self) ==
    /\ maint.pc = "expire" /\ maint.reg = self
    /\ LET timestamp == now
           cutoff_time == timestamp - settings.EXPIRING_REGISTRIES_TTL
           expired_task_ids == ZRANGEBYSCORE(tasks_key[self], 0, cutoff_time)
       IN /\ maint' = [pc |-> "zremrangebyscore", reg |-> self,
                       cutoff_time |-> cutoff_time,
                       expired_task_ids |-> expired_task_ids]
          /\ ret' = None
    /\ UNCHANGED <<pipe, cli, now, settings, tasks_key, workers_key,
                   queues_key, worker_task, queue, status, last_beat, evicted>>

\* expire(), up to its ZRANGEBYSCORE: the cutoff from the clock, the ids
\* at or below it; with none, expire() returns.
expire_zrangebyscore(self) ==
    /\ maint.pc = "expire" /\ maint.reg = self
    /\ LET timestamp == now
           cutoff_time == timestamp - settings.EXPIRING_REGISTRIES_TTL
           expired_task_ids == ZRANGEBYSCORE(tasks_key[self], 0, cutoff_time)
       IN IF expired_task_ids # <<>>
          THEN /\ maint' = [pc |-> "zremrangebyscore", reg |-> self,
                            cutoff_time |-> cutoff_time,
                            expired_task_ids |-> expired_task_ids]
               /\ ret' = None
          ELSE /\ maint' = AfterExpire(self)
               /\ ret' = Ret("expire", self, cutoff_time, "", <<>>)
    /\ UNCHANGED <<pipe, cli, now, settings, tasks_key, workers_key, queues_key,
                   worker_task, queue, status, last_beat, evicted>>

\* expire(): ZREMRANGEBYSCORE key 0 cutoff_time.
expire_zremrangebyscore(self) ==
    /\ maint.pc = "zremrangebyscore" /\ maint.reg = self
    /\ tasks_key' = [tasks_key EXCEPT
                       ![self] = ZREMRANGEBYSCORE(@, 0, maint.cutoff_time)]
    /\ evicted' = evicted \cup (DOMAIN tasks_key[self] \ DOMAIN tasks_key'[self])
    /\ maint' = [maint EXCEPT !.pc = "delete_many"]
    /\ ret' = None
    /\ UNCHANGED <<pipe, cli, now, settings, workers_key, queues_key, worker_task,
                   queue, status, last_beat>>

\* expire(): Task.delete_many(expired_task_ids), and expire() returns.
expire_delete_many(self) ==
    /\ maint.pc = "delete_many" /\ maint.reg = self
    /\ status' = [t \in TaskIds |->
                    IF t \in Range(maint.expired_task_ids)
                    THEN "deleted" ELSE status[t]]
    /\ maint' = AfterExpire(self)
    /\ ret' = Ret("expire", self, maint.cutoff_time, "",
                  maint.expired_task_ids)
    /\ UNCHANGED <<pipe, cli, now, settings, tasks_key, workers_key, queues_key,
                   worker_task, queue, last_beat, evicted>>

\* registry_maintenance(): worker_registry.handle_dead_workers().  The
\* class defines handle_died_workers and no handle_dead_workers, so the
\* attribute lookup raises AttributeError and nothing is reclaimed.
handle_dead_workers ==
    /\ maint.pc = "handle_dead_workers"
    /\ maint' = MaintIdle
    /\ ret' = Ret("handle_dead_workers", "workers", 0, "AttributeError", <<>>)
    /\ UNCHANGED <<pipe, cli, now, settings, tasks_key, workers_key, queues_key,
                   worker_task, queue, status, last_beat, evicted>>

\* WorkerRegistry.handle_died_workers called as it is named: it calls
\* worker_registry.get_dead_ids(self), a bound method given one argument
\* too many, which raises TypeError before any worker is fetched.
WorkerRegistry_handle_died_workers ==
    /\ ret' = Ret("handle_died_workers", "workers", 0, "TypeError", <<>>)
    /\ UNCHANGED <<pipe, cli, now, settings, tasks_key, workers_key, queues_key,
                   worker_task, queue, status, maint, last_beat, evicted>>

Next ==
    \/ Tick
    \/ \E worker \in WorkerIds : WorkerRegistry_add(worker)
    \/ \E worker \in WorkerIds : WorkerRegistry_heartbeat(worker)
    \/ \E worker \in WorkerIds : WorkerRegistry_remove(worker)
    \/ Call_get_dead_ids
    \/ Call_get_running_task_ids
    \/ \E task \in TaskIds, name \in QueueNames : Enqueue(task, name)
    \/ \E worker \in WorkerIds : Dequeue(worker)
    \/ \E worker \in WorkerIds, self \in RegistryNames : Complete(worker, self)
    \/ \E self \in RegistryNames, task \in TaskIds :
         ExpiringRegistry_add_again(self, task)
    \/ registry_maintenance
    \/ \E self \in RegistryNames : expire_zrangebyscore(self)
    \/ \E self \in RegistryNames : expire_zremrangebyscore(self)
    \/ \E self \in RegistryNames : expire_delete_many(self)
    \/ handle_dead_workers
    \/ WorkerRegistry_handle_died_workers

Spec == Init /\ [][Next]_vars

\* ---------------------------------------------------------------------
\* The queue registry by name, and the `worker` command.
\*
\* Above, a queue name is an opaque id; the order of get_names() depends
\* on the characters of the names, so here a name is a character string:
\* a non-empty sequence of code points 1..MaxChar, at most MaxNameLen long.
MaxChar == 2
MaxNameLen == 2
NameStrings == UNION {[1..n -> 1..MaxChar] : n \in 1..MaxNameLen}

\* Python's < on str: the first differing code point decides, and a
\* proper prefix is smaller.
StrLess(a, b) ==
    \E i \in 1..(Len(a) + 1) :
      /\ \A k \in 1..(i - 1) : k <= Len(b) /\ a[k] = b[k]
      /\ \/ i = Len(a) + 1 /\ i <= Len(b)
         \/ i <= Len(a) /\ i <= Len(b) /\ a[i] < b[i]

\* Python's sorted() on a list of str.
RECURSIVE insort(_, _)
insort(name, names) ==
    IF names = <<>> THEN <<name>>
    ELSE IF StrLess(names[1], name)
         THEN <<names[1]>> \o insort(name, Tail(names))
         ELSE <<name>> \o names

RECURSIVE sorted(_)
sorted(names) ==
    IF names = <<>> THEN <<>> ELSE insort(names[1], sorted(Tail(names)))

\* The replies SMEMBERS can give for a set: its members once each, in an
\* order the store chooses.
SMEMBERS(key) ==
    {members \in [1..Cardinality(key) -> key] :
       \A i, j \in 1..Cardinality(key) : i # j => members[i] # members[j]}

\* get_names() that returns the reply as the store gave it.
get_names_unsorted(members) == members

\* QueueRegistry.get_names, given the SMEMBERS reply: decode_list keeps
\* the code points of each name, sorted() orders the names.
get_names(members) == sorted(members)

\* QueueRegistry.remove: SREM.
QueueRegistry_remove(name) == queues_key \ {name}

Call_QueueRegistry_add(name) ==
    /\ queues_key' = QueueRegistry_add(name)
    /\ ret' = Ret("add", "queues", name, "", <<>>)
    /\ UNCHANGED <<pipe, cli, now, settings, tasks_key, workers_key,
                   worker_task, queue, status, maint, last_beat, evicted>>

Call_QueueRegistry_remove(name) ==
    /\ queues_key' = QueueRegistry_remove(name)
    /\ ret' = Ret("remove", "queues", name, "", <<>>)
    /\ UNCHANGED <<pipe, cli, now, settings, tasks_key, workers_key,
                   worker_task, queue, status, maint, last_beat, evicted>>

Call_get_names ==
    /\ \E members \in SMEMBERS(queues_key) :
         ret' = Ret("get_names", "queues", <<>>, "", get_names(members))
    /\ UNCHANGED <<pipe, cli, now, settings, tasks_key, workers_key, queues_key,
                   worker_task, queue, status, maint, last_beat, evicted>>

\* The `worker` command. click collects one keyword argument per declared
\* option and argument, and the wrapper of pass_cli_config invokes
\* worker(cli_config, **kwargs). worker has the required parameter
\* results_ttl, which no option declares, so the call raises TypeError
\* before the first statement of the body: cleanup_ghosts is not called,
\* worker.work is not reached, the exception is not a ConnectionError and
\* leaves the interpreter, which exits with status 1.
worker_command(burst) ==
    /\ cli.pc = "shell"
    /\ cli' = [pc |-> "exited", burst |-> burst, cleanups |-> 0,
               working |-> FALSE, error |-> "TypeError", exit_code |-> 1]
    /\ ret' = None
    /\ UNCHANGED <<pipe, now, settings, tasks_key, workers_key, queues_key,
                   worker_task, queue, status, maint, last_beat, evicted>>

NextCli ==
    \/ \E name \in NameStrings : Call_QueueRegistry_add(name)
    \/ \E name \in NameStrings : Call_QueueRegistry_remove(name)
    \/ Call_get_names
    \/ \E burst \in BOOLEAN : worker_command(burst)

SpecCli == Init /\ [][NextCli]_vars

\* ---------------------------------------------------------------------
\* The registry methods called with a pipeline of the caller.
\*
\* Every method decorated with atomic_pipeline takes `pipeline`: given
\* one, its commands are queued on it and sent when the caller executes
\* it; given none, the method runs on a pipeline of its own, executed
\* before it returns (the actions above). A pipeline is a MULTI/EXEC
\* block: the store applies all of its commands or none.
MaxBatch == 2

Command(cmd, key, member, score) ==
    [cmd |-> cmd, key |-> key, member |-> member, score |-> score]

\* The store applying one queued command.
redis_call(db, c) ==
    CASE c.cmd = "ZADD" /\ c.key = "workers" ->
           [db EXCEPT !.workers_key =
                        ZADD(@, c.member, c.score, FALSE, FALSE).zset]
      [] c.cmd = "ZADD" /\ c.key # "workers" ->
           [db EXCEPT !.tasks_key[c.key] =
                        ZADD(@, c.member, c.score, FALSE, FALSE).zset]
      [] c.cmd = "ZREM" -> [db EXCEPT !.workers_key = ZREM(@, c.member)]
      [] c.cmd = "SADD" -> [db EXCEPT !.queues_key = @ \cup {c.member}]
      [] c.cmd = "SREM" -> [db EXCEPT !.queues_key = @ \ {c.member}]

\* EXEC: the queued commands applied in the order they were queued.
RECURSIVE EXEC(_, _)
EXEC(db, cmds) ==
    IF cmds = <<>> THEN db ELSE EXEC(redis_call(db, Head(cmds)), Tail(cmds))

\* A caller opens a pipeline to hand to the registry methods.
pipeline_open ==
    /\ ~pipe.open
    /\ pipe' = [open |-> TRUE, cmds |-> <<>>]
    /\ ret' = None
    /\ UNCHANGED <<cli, now, settings, tasks_key, workers_key, queues_key,
                   worker_task, queue, status, maint, last_beat, evicted>>

\* pipeline.<command>(...) on the caller's pipeline: the command is
\* queued, nothing is sent to the store.
pipeline_command(c) ==
    /\ pipe.open
    /\ Len(pipe.cmds) < MaxBatch
    /\ pipe' = [pipe EXCEPT !.cmds = Append(@, c)]
    /\ UNCHANGED <<tasks_key, workers_key, queues_key>>

\* QueueRegistry.add that issues its SADD on the connection instead of
\* the pipeline it was given.
QueueRegistry_add_on_connection(name) ==
    /\ pipe.open
    /\ Len(pipe.cmds) < MaxBatch
    /\ queues_key' = QueueRegistry_add(name)
    /\ ret' = None
    /\ UNCHANGED <<pipe, tasks_key, workers_key, now, settings, worker_task,
                   queue, status, maint, evicted, cli, last_beat>>

\* ExpiringRegistry.add(task, pipeline=pipe): the score is the store time
\* read when add is called.
ExpiringRegistry_add_in(self, task) ==
    /\ pipeline_command(Command("ZADD", self, task, now))
    /\ ret' = None
    /\ UNCHANGED <<now, settings, worker_task, queue, status, maint, evicted, cli,
                   last_beat>>

\* WorkerRegistry.add(worker, pipeline=pipe).
WorkerRegistry_add_in(worker) ==
    /\ pipeline_command(Command("ZADD", "workers", worker, now))
    /\ ret' = None
    /\ UNCHANGED <<now, settings, worker_task, queue, status, maint, evicted, cli,
                   last_beat>>

\* WorkerRegistry.remove(worker, pipeline=pipe).
WorkerRegistry_remove_in(worker) ==
    /\ pipeline_command(Command("ZREM", "workers", worker, 0))
    /\ ret' = None
    /\ UNCHANGED <<now, settings, worker_task, queue, status, maint, evicted, cli,
                   last_beat>>

\* QueueRegistry.add(queue, pipeline=pipe).
QueueRegistry_add_in(name) ==
    /\ pipeline_command(Command("SADD", "queues", name, 0))
    /\ ret' = None
    /\ UNCHANGED <<now, settings, worker_task, queue, status, maint, evicted, cli,
                   last_beat>>

\* QueueRegistry.remove(queue, pipeline=pipe).
QueueRegistry_remove_in(name) ==
    /\ pipeline_command(Command("SREM", "queues", name, 0))
    /\ ret' = None
    /\ UNCHANGED <<now, settings, worker_task, queue, status, maint, evicted, cli,
                   last_beat>>

\* The caller executes its pipeline: the store applies every queued
\* command in one step.
pipeline_execute ==
    /\ pipe.open
    /\ LET db == EXEC([workers_key |-> workers_key, queues_key |-> queues_key,
                       tasks_key |-> tasks_key], pipe.cmds)
       IN /\ workers_key' = db.workers_key
          /\ queues_key' = db.queues_key
          /\ tasks_key' = db.tasks_key
          /\ last_beat' = [w \in DOMAIN db.workers_key |->
                             IF \E i \in DOMAIN pipe.cmds :
                                  /\ pipe.cmds[i].cmd = "ZADD"
                                  /\ pipe.cmds[i].key = "workers"
                                  /\ pipe.cmds[i].member = w
                             THEN db.workers_key[w] ELSE last_beat[w]]
    /\ pipe' = NoPipe
    /\ ret' = Ret("execute", "", Len(pipe.cmds), "", <<>>)
    /\ UNCHANGED <<cli, now, settings, worker_task, queue, status, maint,
                   evicted>>

\* The caller's execute() fails (the connection is lost before EXEC):
\* the store applies none of the queued commands.
pipeline_execute_fails ==
    /\ pipe.open
    /\ pipe' = NoPipe
    /\ ret' = Ret("execute", "", Len(pipe.cmds), "ConnectionError", <<>>)
    /\ UNCHANGED <<cli, now, settings, tasks_key, workers_key, queues_key,
                   worker_task, queue, status, maint, last_beat, evicted>>

NextBatch ==
    \/ pipeline_open
    \/ \E self \in RegistryNames, task \in TaskIds :
         ExpiringRegistry_add_in(self, task)
    \/ \E worker \in WorkerIds : WorkerRegistry_add_in(worker)
    \/ \E worker \in WorkerIds : WorkerRegistry_remove_in(worker)
    \/ \E name \in QueueNames : QueueRegistry_add_in(name)
    \/ \E name \in QueueNames : QueueRegistry_remove_in(name)
    \/ pipeline_execute
    \/ pipeline_execute_fails
    \/ \E worker \in WorkerIds : WorkerRegistry_add(worker)
    \/ \E worker \in WorkerIds : WorkerRegistry_remove(worker)
    \/ \E name \in QueueNames : Call_QueueRegistry_add(name)
    \/ \E name \in QueueNames : Call_QueueRegistry_remove(name)
    \/ \E self \in RegistryNames, task \in TaskIds :
         ExpiringRegistry_add_again(self, task)

SpecBatch == Init /\ [][NextBatch]_vars

\* ------------------------------------------------------- properties
InSlot(t) == \E w \in WorkerIds : t \in Range(worker_task[w])
InQueue(t) == \E q \in QueueNames : t \in Range(queue[q])
InRegistry(t) == \E r \in RegistryNames : ZHas(tasks_key[r], t)

\* The worker's last heartbeat is more than the timeout ago.
Stale(w) == workers_key[w] + settings.WORKER_HEARTBEAT_TIMEOUT < now

\* C1: heartbeat(worker) for an id that is absent from the liveness set
\* raises NoSuchWorkerError and leaves the set unchanged; an id that is
\* absent comes back into the set only through an add() of that id.
C1_HeartbeatAbsentRaises ==
    [][/\ \A w \in WorkerIds :
            (ret'.op = "heartbeat" /\ ret'.arg = w /\ ~ZHas(workers_key, w))
            => (ret'.err = "NoSuchWorkerError" /\ workers_key' = workers_key)
       /\ \A w \in WorkerIds :
            (~ZHas(workers_key, w) /\ ZHas(workers_key', w))
            => (ret'.op = "add" /\ ret'.arg = w)]_vars

\* A heartbeat of an absent worker has just raised, with another worker
\* registered.
C1_Witness ==
    /\ ret.op = "heartbeat" /\ ret.err = "NoSuchWorkerError"
    /\ ~ZHas(workers_key, ret.arg)
    /\ DOMAIN workers_key # {}

\* C2: whenever worker.id is present in the liveness set, at every value
\* of the clock, heartbeat returns without error and the worker's score
\* is now.
C2_HeartbeatPresentSucceeds ==
    (ret.op = "heartbeat" /\ ZHas(workers_key, ret.arg))
    => (ret.err = "" /\ workers_key[ret.arg] = now)

\* C3: a registered worker whose latest add or heartbeat was at time T
\* is not returned by get_dead_ids() while now < T + HEARTBEAT_TIMEOUT.
C3_NotDeadBeforeTimeout ==
    /\ \A w \in DOMAIN workers_key :
         now < last_beat[w] + settings.WORKER_HEARTBEAT_TIMEOUT
         => w \notin Range(get_dead_ids)
    /\ ret.op = "get_dead_ids" =>
         \A w \in DOMAIN workers_key :
           now < last_beat[w] + settings.WORKER_HEARTBEAT_TIMEOUT
           => w \notin Range(ret.ids)

\* get_dead_ids() has just returned one worker and not another, whose
\* latest heartbeat is later than the clock's start.
C3_Witness ==
    /\ ret.op = "get_dead_ids" /\ ret.ids # <<>>
    /\ \E w \in DOMAIN workers_key :
         /\ w \notin Range(ret.ids)
         /\ last_beat[w] > 0
         /\ now < last_beat[w] + settings.WORKER_HEARTBEAT_TIMEOUT

\* C4: with alive meaning last heartbeat >= now - HEARTBEAT_TIMEOUT,
\* get_dead_ids() returns exactly the registered workers that are not
\* alive, the boundary included.
Alive(w) == workers_key[w] >= now - settings.WORKER_HEARTBEAT_TIMEOUT

C4_DeadIffNotAlive ==
    \A w \in DOMAIN workers_key : (w \in Range(get_dead_ids)) <=> ~Alive(w)

\* C5: an entry added to an expiring registry at time T keeps its place
\* and its task record through every expire() run at a time
\* now < T + TTL; an expire() that read it at a time now >= T + TTL has,
\* when it returns, removed it and deleted its record.
C5_TTLBound ==
    /\ \A r \in RegistryNames : \A t \in DOMAIN tasks_key[r] :
         now < tasks_key[r][t] + settings.EXPIRING_REGISTRIES_TTL
         => status[t] # "deleted"
    /\ ret.op = "expire" =>
         \A t \in Range(ret.ids) :
           /\ status[t] = "deleted"
           /\ ZHas(tasks_key[ret.key], t) => tasks_key[ret.key][t] > ret.arg

\* C6: when expire() returns, it has deleted the record of no id whose
\* score was written after the cutoff was computed, and every id the
\* registry still indexes has an undeleted task record.
C6_ExpireSparesFreshEntries ==
    ret.op = "expire" =>
      /\ \A t \in Range(ret.ids) :
           ~(ZHas(tasks_key[ret.key], t) /\ tasks_key[ret.key][t] > ret.arg)
      /\ \A t \in DOMAIN tasks_key[ret.key] : status[t] # "deleted"

\* C7: the result of get_running_task_ids() is, for the state of the
\* store at the instant it ran, exactly the slot contents of the workers
\* in the liveness set, with no id twice.
C7_RunningTaskIdsSnapshot ==
    ret.op = "get_running_task_ids" =>
      /\ Range(ret.ids) =
           {worker_task[w][1] :
              w \in {x \in DOMAIN workers_key : worker_task[x] # <<>>}}
      /\ \A i, j \in DOMAIN ret.ids : i # j => ret.ids[i] # ret.ids[j]

\* Two registered workers, one that has finished its task and one still
\* running its task: the result is the running one's task alone.
C7_Witness ==
    /\ ret.op = "get_running_task_ids"
    /\ \E w1, w2 \in DOMAIN workers_key :
         /\ w1 < w2
         /\ worker_task[w2] = <<>>
         /\ worker_task[w1] # <<>>
         /\ ret.ids = worker_task[w1]
    /\ \E t \in TaskIds : status[t] = "finished" /\ InRegistry(t)

\* C8: when maintenance has run at a time past a worker's last heartbeat
\* + HEARTBEAT_TIMEOUT, that worker is absent from get_worker_ids().
C8_StaleWorkerReclaimed ==
    ret.op = "handle_dead_workers" =>
      \A w \in WorkerIds :
        ~(w \in Range(get_worker_ids) /\ Stale(w))

\* C9: a task that was dequeued and not yet evicted by expire() is in a
\* worker's slot, in a queue or in a registry; once finished or failed it
\* is in a slot or a registry.
C9_NoTaskLost ==
    \A t \in TaskIds :
      /\ (status[t] \notin {"none", "queued"} /\ t \notin evicted)
         => (InSlot(t) \/ InQueue(t) \/ InRegistry(t))
      /\ (status[t] \in {"finished", "failed"} /\ t \notin evicted)
         => (InSlot(t) \/ InRegistry(t))

\* A failed task sits in a registry while maintenance has just run over
\* a stale worker that holds a running task.
C9_Witness ==
    /\ ret.op = "handle_dead_workers"
    /\ \E t \in TaskIds : status[t] = "failed" /\ InRegistry(t) /\ ~InSlot(t)
    /\ \E w \in DOMAIN workers_key : Stale(w) /\ worker_task[w] # <<>>

\* C10: in every reachable state a task id is in at most one place among
\* the queues' pending lists, the workers' slots and the registries.
C10_AtMostOnePlace ==
    \A t \in TaskIds :
      Cardinality({w \in WorkerIds : t \in Range(worker_task[w])})
      + Cardinality({r \in RegistryNames : ZHas(tasks_key[r], t)})
      + Cardinality({qi \in QueueNames \X (1..MaxTasks) :
                       qi[2] <= Len(queue[qi[1]]) /\ queue[qi[1]][qi[2]] = t})
      <= 1

\* One task in a worker's slot, another in a registry and read as
\* expired by an expire() that has not yet removed it.
C10_Witness ==
    /\ maint.pc = "zremrangebyscore"
    /\ \E t1, t2 \in TaskIds :
         /\ t1 # t2
         /\ InSlot(t1) /\ status[t1] = "running"
         /\ InRegistry(t2) /\ t2 \in Range(maint.expired_task_ids)

\* The registered workers whose slot holds a task, in enumeration order.
WorkersWithTask ==
    SelectSeq(get_worker_ids, LAMBDA w : worker_task[w] # <<>>)

\* C11: every worker's slot holds at most one task id, and the task it
\* holds has status running; get_running_task_ids() returns at most one
\* id per registered worker, in the order the workers are enumerated,
\* and no id twice.
C11_OneRunningSlot ==
    /\ \A w \in WorkerIds :
         /\ Len(worker_task[w]) <= 1
         /\ worker_task[w] # <<>> => status[worker_task[w][1]] = "running"
    /\ ret.op = "get_running_task_ids" =>
         /\ Len(ret.ids) <= Cardinality(DOMAIN workers_key)
         /\ ret.ids = [i \in 1..Len(WorkersWithTask) |->
                         worker_task[WorkersWithTask[i]][1]]
         /\ \A i, j \in DOMAIN ret.ids : i # j => ret.ids[i] # ret.ids[j]

\* get_running_task_ids() has just returned the tasks of two workers.
C11_Witness ==
    /\ ret.op = "get_running_task_ids"
    /\ Len(ret.ids) = 2
    /\ \A w \in WorkerIds : worker_task[w] # <<>>

C13_SweepToleratesFailures ==
    ret.op \in {"handle_dead_workers", "handle_died_workers"} =>
      /\ ret.err = ""
      /\ \A w \in DOMAIN workers_key : w \notin Range(get_dead_ids)

\* C15: ExpiringRegistry.add of an id already indexed raises nothing and
\* leaves one entry for the id, with the time of this add as its score;
\* get_task_ids() lists every indexed id once, in ascending score order.
C15_AddIsUpsert ==
    /\ (ret.op = "add" /\ ret.key \in RegistryNames) =>
         /\ ret.err = ""
         /\ ZHas(tasks_key[ret.key], ret.arg)
         /\ tasks_key[ret.key][ret.arg] = now
         /\ Cardinality({i \in DOMAIN get_task_ids(ret.key) :
                           get_task_ids(ret.key)[i] = ret.arg}) = 1
    /\ \A self \in RegistryNames :
         LET ids == get_task_ids(self)
         IN /\ Range(ids) = DOMAIN tasks_key[self]
            /\ \A i, j \in DOMAIN ids :
                 i < j => /\ ids[i] # ids[j]
                          /\ tasks_key[self][ids[i]] <= tasks_key[self][ids[j]]

\* An id already indexed has just been added again, later than another
\* id of the same registry.
C15_Witness ==
    /\ ret.op = "add" /\ ret.key \in RegistryNames
    /\ \E t \in DOMAIN tasks_key[ret.key] :
         t # ret.arg /\ tasks_key[ret.key][t] < tasks_key[ret.key][ret.arg]

\* C18: a task record is deleted only after its id was removed from the
\* registry, and no id that expire() removed from the registry is seen
\* absent from it while its task record still exists.
C18_NoRemovedIdWithRecord ==
    \A t \in TaskIds :
      /\ status[t] = "deleted" => t \in evicted
      /\ t \in evicted => (InRegistry(t) \/ status[t] = "deleted")

\* C19: when expire() returns, the ids its range remove took out of the
\* registry are the ids whose task records it deleted.
C19_RemovedEqualsDeleted ==
    ret.op = "expire" =>
      /\ \A t \in evicted : status[t] = "deleted"
      /\ \A t \in Range(ret.ids) : t \in evicted

\* C20: a step of expire() on one registry changes neither the other
\* registry nor the worker set, the queue registry, the slots or the
\* queues; and when no entry has a score <= now - TTL, expire() returns
\* at once, with no removal and no deletion issued and the registries and
\* the task records unchanged.
C20_ExpireFrame ==
    [][(maint' # maint /\ maint.pc \in {"expire", "zremrangebyscore",
                                         "delete_many"}) =>
         /\ \A r \in RegistryNames \ {maint.reg} : tasks_key'[r] = tasks_key[r]
         /\ workers_key' = workers_key
         /\ queues_key' = queues_key
         /\ worker_task' = worker_task
         /\ queue' = queue
         /\ (/\ maint.pc = "expire"
             /\ \A t \in DOMAIN tasks_key[maint.reg] :
                  tasks_key[maint.reg][t]
                    > now - settings.EXPIRING_REGISTRIES_TTL)
            => /\ maint'.pc \notin {"zremrangebyscore", "delete_many"}
               /\ ret'.op = "expire"
               /\ tasks_key' = tasks_key
               /\ status' = status]_vars

\* expire() has just returned without reading any expired id from a
\* registry that indexes a task, the other registry indexing one too.
C20_Witness ==
    /\ ret.op = "expire" /\ ret.ids = <<>>
    /\ \A r \in RegistryNames : DOMAIN tasks_key[r] # {}

\* C16: QueueRegistry.add of a registered name and QueueRegistry.remove of
\* an unregistered name raise nothing and leave the set as it was, and
\* get_names() returns the registered names, each once, in lexicographic
\* order.
C16_QueueRegistrySet ==
    [][/\ (ret'.op = "add" /\ ret'.key = "queues" /\ ret'.arg \in queues_key)
          => (queues_key' = queues_key /\ ret'.err = "")
       /\ (ret'.op = "add" /\ ret'.key = "queues")
          => ret'.arg \in queues_key'
       /\ (ret'.op = "remove" /\ ret'.key = "queues"
                              /\ ret'.arg \notin queues_key)
          => (queues_key' = queues_key /\ ret'.err = "")
       /\ (ret'.op = "remove" /\ ret'.key = "queues")
          => ret'.arg \notin queues_key'
       /\ ret'.op = "get_names"
          => /\ Range(ret'.ids) = queues_key'
             /\ Len(ret'.ids) = Cardinality(queues_key')
             /\ \A i, j \in DOMAIN ret'.ids :
                  i < j => StrLess(ret'.ids[i], ret'.ids[j])]_vars

\* get_names() has just returned three or more names, a longer name
\* before a shorter one.
C16_Witness ==
    /\ ret.op = "get_names"
    /\ Len(ret.ids) >= 3
    /\ \E i, j \in DOMAIN ret.ids : i < j /\ Len(ret.ids[i]) > Len(ret.ids[j])

\* C17: once the `worker` command has ended, the dead-worker cleanup has
\* run exactly once, unless a connection failure ended the process with
\* exit code 1; and the Worker never works without the cleanup having run.
C17_CleanupOnceBeforeWork ==
    /\ cli.working => cli.cleanups = 1
    /\ cli.pc = "exited" =>
         \/ cli.cleanups = 1
         \/ cli.error = "ConnectionError" /\ cli.exit_code = 1

\* The keys the registries write, and the members each can hold.
StoreKeys == {"workers", "queues"} \cup RegistryNames
Members(k) ==
    IF k = "workers" THEN WorkerIds
    ELSE IF k = "queues" THEN QueueNames ELSE TaskIds

\* Member m is in key k of the store with the given three keys.
Member(w, q, t, k, m) ==
    IF k = "workers" THEN ZHas(w, m)
    ELSE IF k = "queues" THEN m \in q ELSE ZHas(t[k], m)

\* The positions of a batch that write member m of key k.
Writes(cmds, k, m) ==
    {i \in DOMAIN cmds : cmds[i].key = k /\ cmds[i].member = m}

\* C14: a registry method given the caller's pipeline changes nothing in
\* the store; the store changes only when a pipeline is executed or a
\* method is called without one. A successful execute makes every write
\* of the batch visible in one step (for each member the last write of
\* the batch decides, members the batch does not write are as before); a
\* failed execute changes nothing. A method called without a pipeline has
\* its write in the store when it returns.
C14_BatchVisibility ==
    [][/\ (pipe.open /\ pipe'.open /\ pipe'.cmds # pipe.cmds)
          => UNCHANGED <<workers_key, queues_key, tasks_key>>
       /\ <<workers_key, queues_key, tasks_key>>'
            # <<workers_key, queues_key, tasks_key>>
          => \/ ret'.op = "execute" /\ ret'.err = "" /\ pipe.open
             \/ ret'.op \in {"add", "remove"} /\ pipe' = pipe
             \/ \E w \in WorkerIds : WorkerRegistry_remove(w)
       /\ (ret'.op = "execute" /\ ret'.err # "")
          => UNCHANGED <<workers_key, queues_key, tasks_key>>
       /\ (ret'.op = "execute" /\ ret'.err = "")
          => \A k \in StoreKeys : \A m \in Members(k) :
               LET W == Writes(pipe.cmds, k, m)
                   last == CHOOSE i \in W : \A j \in W : j <= i
               IN IF W = {}
                  THEN Member(workers_key', queues_key', tasks_key', k, m)
                       = Member(workers_key, queues_key, tasks_key, k, m)
                  ELSE Member(workers_key', queues_key', tasks_key', k, m)
                       = (pipe.cmds[last].cmd \in {"ZADD", "SADD"})
       /\ (ret'.op = "add" /\ ret'.key \in StoreKeys)
          => Member(workers_key', queues_key', tasks_key',
                    ret'.key, ret'.arg)
       /\ (ret'.op = "remove" /\ ret'.key \in StoreKeys)
          => ~Member(workers_key', queues_key', tasks_key',
                     ret'.key, ret'.arg)
       /\ \A w \in WorkerIds :
            WorkerRegistry_remove(w) => ~ZHas(workers_key', w)]_vars

\* A full batch has just been executed, and it has registered a worker
\* and a queue name.
C14_Witness ==
    /\ ret.op = "execute" /\ ret.err = "" /\ ret.arg = MaxBatch
    /\ DOMAIN workers_key # {}
    /\ queues_key # {}
====
